---- MODULE Spec2Model ----
(***************************************************************************)
(* Bookly: token issuance / validation / revocation flow and user signup.  *)
(*                                                                         *)
(* Time is counted in ticks of 1/Res second, so that the truncation of     *)
(* int(expiry_time.timestamp()) is visible.  Python values that may be     *)
(* None are tagged records ([t |-> "NoneType"], [t |-> "dict", ...]).      *)
(* Library primitives (HMAC signature, bcrypt digest, uuid4) are modelled  *)
(* as ideal: a signature is the triple it authenticates, a digest is an    *)
(* injective function of salt and input, uuid4 returns a fresh value.      *)
(***************************************************************************)
EXTENDS Integers, Sequences, FiniteSets, TLC

VARIABLES now, users, books, issued, token_blocklist, revoked, submitted, pending, resp

vars == <<now, users, books, issued, token_blocklist, revoked, submitted, pending, resp>>

----------------------------------------------------------------------------
(* Bounds of the model *)

Res == 2
MaxTokens == 1
MaxUsers == 2
MaxMinted == 2
MaxOver == 1
MaxRequests == 3
MaxBooks == 2

(* Program constants *)

JTI_EXPIRY == 3600
ACCESS_TOKEN_EXPIRY == 3600
REFRESH_TOKEN_EXPIRY == 2
SecondsPerDay == 86400
BcryptLimit == 72
PasswordMinLength == 3

JWT_SECRET_KEY == "secret"
JWT_ALGORITHM == "HS256"

None == [t |-> "NoneType"]

----------------------------------------------------------------------------
(* Clock *)

\* datetime.now().timestamp() as a whole number of ticks
Timestamp(t) == t

\* int(x) of a timestamp given in ticks: whole seconds, fraction dropped
IntSeconds(t) == t \div Res

\* timedelta(seconds = s), timedelta(days = d) in ticks
TimedeltaSeconds(s) == s * Res
TimedeltaDays(d) == d * SecondsPerDay * Res

\* the instants at which requests are made: the start, the end of the
\* access-token lifetime counted from the start and the tick after it, and the
\* tick after the end of the refresh-token lifetime
Instants ==
    {0,
     TimedeltaSeconds(ACCESS_TOKEN_EXPIRY), TimedeltaSeconds(ACCESS_TOKEN_EXPIRY) + 1,
     TimedeltaDays(REFRESH_TOKEN_EXPIRY) + 1}

----------------------------------------------------------------------------
(* Redis: token_blocklist is a set of entries [name, value, expireAt] *)

\* an entry is visible until its time to live has elapsed
RedisLive(store, t) == {e \in store : e.expireAt > t}

\* token_blocklist.set(name, value, ex)
RedisSet(store, name, value, ex, t) ==
    {e \in store : e.name # name}
        \cup {[name |-> name, value |-> value, expireAt |-> t + TimedeltaSeconds(ex)]}

\* token_blocklist.get(name): the value, or None when the key is absent
RedisGet(store, name, t) ==
    IF \E e \in RedisLive(store, t) : e.name = name
    THEN [t |-> "str", v |-> (CHOOSE e \in RedisLive(store, t) : e.name = name).value]
    ELSE None

\* add_jti_to_block_list(jti)
add_jti_to_block_list(store, jti, t) == RedisSet(store, jti, "", JTI_EXPIRY, t)

\* token_in_block_list(jti): awaits the get and falls off the end of the
\* function body, so the caller receives None
token_in_block_list(store, jti, t) ==
    LET fetched == RedisGet(store, jti, t) IN None

\* Python truthiness of the values that occur here
Truthy(x) ==
    CASE x.t = "NoneType" -> FALSE
      [] x.t = "bool" -> x.v
      [] x.t = "str" -> x.v # ""
      [] x.t = "dict" -> TRUE

----------------------------------------------------------------------------
(* Token codec: a token string is [segments, alg, payload, sig] *)

\* the error classes derived from jwt.PyJWTError that jwt.decode raises
PyJWTError == {"DecodeError", "InvalidAlgorithmError", "InvalidSignatureError",
               "ExpiredSignatureError"}

\* HMAC over header and payload under a key (ideal: equal only for equal inputs)
Hmac(key, alg, payload) == [key |-> key, alg |-> alg, payload |-> payload, flip |-> 0]

\* jwt.encode(payload, key, algorithm)
jwt_encode(payload, key, algorithm) ==
    [segments |-> 3, alg |-> algorithm, payload |-> payload,
     sig |-> Hmac(key, algorithm, payload)]

\* jwt.decode that does not look at the exp claim
jwt_decode_ignoring_exp(token, key, algorithms, t) ==
    IF token.segments # 3
    THEN [error |-> "DecodeError", claims |-> None]
    ELSE IF token.alg \notin algorithms
    THEN [error |-> "InvalidAlgorithmError", claims |-> None]
    ELSE IF token.sig # Hmac(key, token.alg, token.payload)
    THEN [error |-> "InvalidSignatureError", claims |-> None]
    ELSE [error |-> "", claims |-> [t |-> "dict", user |-> token.payload.user,
                                    exp |-> token.payload.exp, jti |-> token.payload.jti,
                                    refresh |-> token.payload.refresh]]

\* jwt.decode that does not verify the signature
jwt_decode_unverified(token, key, algorithms, t) ==
    IF token.segments # 3
    THEN [error |-> "DecodeError", claims |-> None]
    ELSE IF token.alg \notin algorithms
    THEN [error |-> "InvalidAlgorithmError", claims |-> None]
    ELSE IF token.payload.exp * Res <= Timestamp(t)
    THEN [error |-> "ExpiredSignatureError", claims |-> None]
    ELSE [error |-> "", claims |-> [t |-> "dict", user |-> token.payload.user,
                                    exp |-> token.payload.exp, jti |-> token.payload.jti,
                                    refresh |-> token.payload.refresh]]

\* jwt.decode(token, key, algorithms) at time t: structure, algorithm,
\* signature, then the exp claim (expired when exp <= now)
jwt_decode(token, key, algorithms, t) ==
    IF token.segments # 3
    THEN [error |-> "DecodeError", claims |-> None]
    ELSE IF token.alg \notin algorithms
    THEN [error |-> "InvalidAlgorithmError", claims |-> None]
    ELSE IF token.sig # Hmac(key, token.alg, token.payload)
    THEN [error |-> "InvalidSignatureError", claims |-> None]
    ELSE IF token.payload.exp * Res <= Timestamp(t)
    THEN [error |-> "ExpiredSignatureError", claims |-> None]
    ELSE [error |-> "", claims |-> [t |-> "dict", user |-> token.payload.user,
                                    exp |-> token.payload.exp, jti |-> token.payload.jti,
                                    refresh |-> token.payload.refresh]]

\* generate_access_token that gives every token the lifetime of a refresh
\* token
generate_access_token_refresh_lifetime(user_data, expiry, refresh, t, uuid) ==
    LET expiry_time == t + TimedeltaDays(REFRESH_TOKEN_EXPIRY)
        payload == [user |-> user_data,
                    exp |-> IntSeconds(Timestamp(expiry_time)),
                    jti |-> uuid,
                    refresh |-> refresh]
    IN jwt_encode(payload, JWT_SECRET_KEY, JWT_ALGORITHM)

\* generate_access_token that leaves the refresh claim at its default
generate_access_token_default_refresh(user_data, expiry, refresh, t, uuid) ==
    LET expiry_time == t + (IF expiry # None THEN expiry.ticks
                            ELSE TimedeltaSeconds(ACCESS_TOKEN_EXPIRY))
        payload == [user |-> user_data,
                    exp |-> IntSeconds(Timestamp(expiry_time)),
                    jti |-> uuid,
                    refresh |-> FALSE]
    IN jwt_encode(payload, JWT_SECRET_KEY, JWT_ALGORITHM)

\* generate_access_token(user_data, expiry, refresh) called at time t, with
\* uuid the value uuid.uuid4() returns; expiry is None or a timedelta in ticks
generate_access_token(user_data, expiry, refresh, t, uuid) ==
    LET expiry_time == t + (IF expiry # None THEN expiry.ticks
                            ELSE TimedeltaSeconds(ACCESS_TOKEN_EXPIRY))
        payload == [user |-> user_data,
                    exp |-> IntSeconds(Timestamp(expiry_time)),
                    jti |-> uuid,
                    refresh |-> refresh]
    IN jwt_encode(payload, JWT_SECRET_KEY, JWT_ALGORITHM)

\* a handler that catches the expiry error only
DecodeTokenCatchesExpiryOnly == {"ExpiredSignatureError"}

\* the exception classes caught by decode_token
DecodeTokenCatches == PyJWTError

\* decode_token(token) at time t: [raised, value]; value is the claims or None
decode_token(token, t) ==
    LET r == jwt_decode(token, JWT_SECRET_KEY, {JWT_ALGORITHM}, t) IN
    IF r.error = "" THEN [raised |-> "", value |-> r.claims]
    ELSE IF r.error \in DecodeTokenCatches THEN [raised |-> "", value |-> None]
    ELSE [raised |-> r.error, value |-> None]

----------------------------------------------------------------------------
(* Token strings a client can present *)

\* a signature with one byte changed
AlterByte(sig) == [sig EXCEPT !.flip = 1 - @]

\* strings that are not a three-segment token
MalformedToken == [segments |-> 2, alg |-> "", payload |-> None, sig |-> None]

\* token strings made from an issued one by changing signature or claims
TamperedOf(tok, others) ==
    {[tok EXCEPT !.sig = AlterByte(@)],
     [tok EXCEPT !.payload.refresh = ~@],
     [tok EXCEPT !.payload.exp = @ + REFRESH_TOKEN_EXPIRY * SecondsPerDay]}
    \cup {[tok EXCEPT !.sig = o.sig] : o \in others \ {tok}}

\* a token string whose header names another algorithm
WrongAlgOf(tok) ==
    {[tok EXCEPT !.alg = "none", !.sig = None]}

IssuedTokens == {i.token : i \in issued}

Tampered == UNION {TamperedOf(tok, IssuedTokens) : tok \in IssuedTokens}

WrongAlg == UNION {WrongAlgOf(tok) : tok \in IssuedTokens}

Presentable == IssuedTokens \cup Tampered \cup WrongAlg \cup {MalformedToken}

----------------------------------------------------------------------------
(* Token guard *)

\* the Authorization header of a request: absent, or a scheme and credentials
NoHeader == [present |-> FALSE, scheme |-> "", credentials |-> None]

Headers ==
    {NoHeader, [present |-> TRUE, scheme |-> "Bearer", credentials |-> None]}
    \cup {[present |-> TRUE, scheme |-> "Basic", credentials |-> tok] :
               tok \in {i.token : i \in {j \in issued : j.jti = 1}}}
    \cup {[present |-> TRUE, scheme |-> "Bearer", credentials |-> tok] : tok \in Presentable}

\* a guard constructed with auto_error=False
auto_error_off == FALSE

\* TokenBearer.__init__(auto_error=True); the routes construct both guards
\* without arguments
auto_error == TRUE

\* HTTPBearer.__call__(request): the credentials, or 403 under auto_error
HTTPBearer_call(header, autoError) ==
    IF ~(header.present /\ header.scheme # "" /\ header.credentials # None)
    THEN IF autoError
         THEN [status |-> 403, detail |-> "Not authenticated", creds |-> None]
         ELSE [status |-> 0, detail |-> "", creds |-> None]
    ELSE IF header.scheme # "Bearer"
    THEN IF autoError
         THEN [status |-> 403, detail |-> "Invalid authentication credentials", creds |-> None]
         ELSE [status |-> 0, detail |-> "", creds |-> None]
    ELSE [status |-> 0, detail |-> "",
          creds |-> [t |-> "creds", scheme |-> header.scheme, credentials |-> header.credentials]]

\* the two overrides with their conditions exchanged
verify_token_data_exchanged(variant, token_data) ==
    IF variant = "access"
    THEN IF Truthy(token_data) /\ ~token_data.refresh THEN "Provide access token" ELSE ""
    ELSE IF Truthy(token_data) /\ token_data.refresh THEN "Provide refresh token" ELSE ""

\* AccessTokenBearer.verify_token_data / RefreshTokenBearer.verify_token_data:
\* the detail of the HTTPException raised, "" when none is raised
verify_token_data(variant, token_data) ==
    IF variant = "access"
    THEN IF Truthy(token_data) /\ token_data.refresh THEN "Provide access token" ELSE ""
    ELSE IF Truthy(token_data) /\ ~token_data.refresh THEN "Provide refresh token" ELSE ""

InvalidOrRevoked == "this token is invalid or has been revoked"

GuardResult(status, detail, reason, calls, claims) ==
    [status |-> status, detail |-> detail, reason |-> reason, calls |-> calls,
     claims |-> claims]

\* a guard that asks the revocation store about the jti the token names
\* before it decodes the token
TokenBearer_call_store_first(variant, header, store, t) ==
    LET creads == HTTPBearer_call(header, auto_error) IN
    IF creads.status # 0
    THEN GuardResult(creads.status, creads.detail, "missing_credentials",
                     <<"HTTPBearer">>, None)
    ELSE IF creads.creds = None
    THEN GuardResult(500, "AttributeError", "error", <<"HTTPBearer">>, None)
    ELSE
    LET token == creads.creds.credentials
        listed == IF token.payload = None THEN None
                  ELSE token_in_block_list(store, token.payload.jti, t)
        decoded == decode_token(token, t)
        token_data == decoded.value IN
    IF Truthy(listed)
    THEN GuardResult(403, InvalidOrRevoked, "revoked",
                     <<"HTTPBearer", "token_in_block_list">>, None)
    ELSE IF ~Truthy(token_data)
    THEN GuardResult(403, InvalidOrRevoked, "invalid_or_expired",
                     <<"HTTPBearer", "token_in_block_list", "decode_token">>, None)
    ELSE
    LET raised == verify_token_data(variant, token_data) IN
    IF raised # ""
    THEN GuardResult(403, raised, "wrong_token_type",
                     <<"HTTPBearer", "token_in_block_list", "decode_token",
                       "verify_token_data">>, None)
    ELSE GuardResult(0, "", "accepted",
                     <<"HTTPBearer", "token_in_block_list", "decode_token",
                       "verify_token_data">>, token_data)

\* TokenBearer.__call__(request) for one guard variant, at time t
TokenBearer_call(variant, header, store, t) ==
    LET creads == HTTPBearer_call(header, auto_error) IN
    IF creads.status # 0
    THEN GuardResult(creads.status, creads.detail, "missing_credentials",
                     <<"HTTPBearer">>, None)
    ELSE IF creads.creds = None
    THEN GuardResult(500, "AttributeError", "error", <<"HTTPBearer">>, None)
    ELSE
    LET decoded == decode_token(creads.creds.credentials, t)
        token_data == decoded.value IN
    IF decoded.raised # ""
    THEN GuardResult(500, decoded.raised, "error", <<"HTTPBearer", "decode_token">>, None)
    ELSE IF ~Truthy(token_data)
    THEN GuardResult(403, InvalidOrRevoked, "invalid_or_expired",
                     <<"HTTPBearer", "decode_token">>, None)
    ELSE IF Truthy(token_in_block_list(store, token_data.jti, t))
    THEN GuardResult(403, InvalidOrRevoked, "revoked",
                     <<"HTTPBearer", "decode_token", "token_in_block_list">>, None)
    ELSE
    LET raised == verify_token_data(variant, token_data) IN
    IF raised # ""
    THEN GuardResult(403, raised, "wrong_token_type",
                     <<"HTTPBearer", "decode_token", "token_in_block_list",
                       "verify_token_data">>, None)
    ELSE GuardResult(0, "", "accepted",
                     <<"HTTPBearer", "decode_token", "token_in_block_list",
                       "verify_token_data">>, token_data)

----------------------------------------------------------------------------
(* Password hasher: passwords are sequences of code points, hashes are     *)
(* strings "$" salt "$" digest given as sequences of byte values           *)

\* str.encode('utf-8') for code points below 2048
RECURSIVE Utf8(_)
Utf8(str) ==
    IF str = <<>> THEN <<>>
    ELSE (IF Head(str) < 128 THEN <<Head(str)>>
          ELSE <<192 + (Head(str) \div 64), 128 + (Head(str) % 64)>>) \o Utf8(Tail(str))

\* no truncation at all
Truncate_never(bytes) == bytes

\* password_bytes[:72]
Truncate(bytes) ==
    IF Len(bytes) > BcryptLimit THEN SubSeq(bytes, 1, BcryptLimit) ELSE bytes

Dollar == 36

\* bcrypt.hashpw(password_bytes, salt)
bcrypt_hashpw(bytes, salt) ==
    <<Dollar, salt, Dollar>> \o [i \in 1..Len(bytes) |-> (bytes[i] + salt) % 256]

\* whether a string has the form of a bcrypt hash
IsBcryptHash(h) == Len(h) >= 3 /\ h[1] = Dollar /\ h[3] = Dollar

\* generate_password_hash(password) with salt the value of bcrypt.gensalt()
generate_password_hash(password, salt) ==
    bcrypt_hashpw(Truncate(Utf8(password)), salt)

\* verify_password(password, hash): [raised, value]; bcrypt.checkpw raises
\* ValueError on a string that is not a bcrypt hash
verify_password(password, hash) ==
    IF ~IsBcryptHash(hash) THEN [raised |-> "ValueError", value |-> FALSE]
    ELSE [raised |-> "",
          value |-> bcrypt_hashpw(Truncate(Utf8(password)), hash[2]) = hash]

----------------------------------------------------------------------------
(* Users *)

\* the columns of the User table
UserColumns == {"uid", "username", "email", "first_name", "last_name",
                "is_veriied", "created_at", "updated_at"}

\* the fields UserResponse requires
UserResponseFields == {"uid", "username", "email", "first_name", "last_name",
                       "is_verified", "created_at", "updated_at"}

Datetime(t) == [t |-> "datetime", ts |-> t]

\* User(**values): the columns take the values given for them, the others
\* their defaults; keys that are not columns are dropped
User(values, uuid) ==
    [c \in UserColumns |->
        IF c \in DOMAIN values THEN values[c]
        ELSE IF c = "uid" THEN uuid
        ELSE IF c = "is_veriied" THEN FALSE
        ELSE None]

\* attribute access obj.name succeeds on the names obj has; str(x)
HasAttr(obj, name) == name \in DOMAIN obj
Str(x) == [t |-> "str", v |-> x]

\* UserCreateModel validation
UserCreateModelValid(user_data) == Len(user_data.password) >= PasswordMinLength

\* UserService.get_user_by_email(email): the first matching row, or None
get_user_by_email(table, email) ==
    IF \E u \in table : u.email = email
    THEN [t |-> "Row", User |-> CHOOSE u \in table : u.email = email]
    ELSE None

\* a table without the constraint
unique_off == FALSE

\* Field(unique=True) of User.email: the table has a unique constraint
unique == TRUE

\* the INSERT of a row violates the unique constraint on email
IntegrityError(table, email, constrained) ==
    constrained /\ \E u \in table : u.email = email

\* a check that reports no user for any email
user_exist_unchecked(table, email) == FALSE

\* UserService.user_exist(email)
user_exist(table, email) == get_user_by_email(table, email) # None

\* the dict UserService.create_user builds from the request
user_data_dict(user_data) ==
    LET plain_password == user_data.password IN
    [k \in (DOMAIN user_data \ {"password"}) \cup {"password_hash"} |->
        IF k = "password_hash" THEN plain_password ELSE user_data[k]]

\* UserService.create_user(user_data): the row as refreshed after the flush
create_user(user_data, uuid, t) ==
    [User(user_data_dict(user_data), uuid) EXCEPT !.created_at = Datetime(t)]

\* serialisation of a returned user through response_model=UserResponse
ResponseValid(user) ==
    /\ UserResponseFields \subseteq DOMAIN user
    /\ user.created_at.t = "datetime"
    /\ user.updated_at.t = "datetime"

\* the response body: the fields of UserResponse read from the returned user
UserResponse(user) == [f \in UserResponseFields |-> user[f]]

\* the value stored as a user's password, None when the row holds none
StoredPassword(user) ==
    IF "password_hash" \in DOMAIN user
    THEN [t |-> "str", v |-> user.password_hash]
    ELSE None

----------------------------------------------------------------------------
(* Books: a string is Str of its sequence of characters, a price Float *)

Space == 32

Float(x) == [t |-> "float", v |-> x]

\* str.strip()
RECURSIVE LStrip(_)
LStrip(str) ==
    IF str # <<>> /\ Head(str) = Space THEN LStrip(Tail(str)) ELSE str

RECURSIVE RStrip(_)
RStrip(str) ==
    IF str # <<>> /\ str[Len(str)] = Space
    THEN RStrip(SubSeq(str, 1, Len(str) - 1)) ELSE str

Strip(str) == RStrip(LStrip(str))

\* the columns of the Book table, and those besides the primary key that
\* are NOT NULL
BookColumns == {"uid", "title", "author", "publication", "price",
                "created_at", "updated_at"}

BookNotNull == {"title", "author", "publication", "price", "created_at"}

\* the fields of BookCreate and BookUpdate
BookFields == {"title", "author", "publication", "price"}

BookStringFields == {"title", "author", "publication"}

\* Book(**values): the columns take the values given, the others their
\* defaults
Book(values, uuid) ==
    [c \in BookColumns |->
        IF c \in DOMAIN values THEN values[c]
        ELSE IF c = "uid" THEN uuid
        ELSE None]

\* BookCreate validation: the strings are not blank, the price is positive
BookCreateValid(book_data) ==
    /\ DOMAIN book_data = BookFields
    /\ \A f \in BookStringFields : Strip(book_data[f].v) # <<>>
    /\ book_data.price.v > 0

\* BookCreate.model_dump(): the validated values, strings stripped
BookCreate_model_dump(book_data) ==
    [f \in BookFields |->
        IF f \in BookStringFields THEN Str(Strip(book_data[f].v)) ELSE book_data[f]]

\* BookUpdate validation of a body that sets the fields in its domain: a
\* field may be set to null, a string must not be blank, a price positive
BookUpdateValid(book_data) ==
    /\ DOMAIN book_data \subseteq BookFields
    /\ \A f \in DOMAIN book_data :
          book_data[f] # None =>
              IF f \in BookStringFields THEN Strip(book_data[f].v) # <<>>
              ELSE book_data[f].v > 0

\* BookUpdate.model_dump(exclude_unset=True): the fields the body set
BookUpdate_model_dump(book_data) ==
    [f \in DOMAIN book_data |->
        IF f \in BookStringFields /\ book_data[f] # None
        THEN Str(Strip(book_data[f].v)) ELSE book_data[f]]

\* a lookup that takes any stored book for the one asked for
get_book_by_id_any(table, book_uid) ==
    IF table # {} THEN CHOOSE b \in table : TRUE ELSE None

\* BookService.get_book_by_id(book_uid): scalar_one_or_none()
get_book_by_id(table, book_uid) ==
    IF \E b \in table : b.uid = book_uid
    THEN CHOOSE b \in table : b.uid = book_uid
    ELSE None

\* BookService.get_all_books(skip, limit): newest first, then the page
get_all_books(table, skip, limit) ==
    LET n == Cardinality(table)
        ordered == CHOOSE seq \in [1..n -> table] :
                       /\ \A i, j \in 1..n : i # j => seq[i] # seq[j]
                       /\ \A i, j \in 1..n :
                             i < j => seq[i].created_at.ts >= seq[j].created_at.ts
        last == IF skip + limit < n THEN skip + limit ELSE n
    IN SubSeq(ordered, skip + 1, last)

\* the flush of a row: a NOT NULL column holding NULL is refused
NotNullViolation(book) == \E c \in BookNotNull : book[c] = None

\* the row after setattr of the dumped fields; flushed, the database sets
\* updated_at
SetAttrs(book, update_data) ==
    [c \in BookColumns |-> IF c \in DOMAIN update_data THEN update_data[c] ELSE book[c]]

\* a rollback that keeps what the transaction had written
Rollback_keeping(committed, working) == working

\* session.commit() and session.rollback(): the table after the transaction
\* that turned committed into working ends
Commit(committed, working) == working

Rollback(committed, working) == committed

\* session.delete(instance) without await: the coroutine is created and
\* never run, the session is not told of any deletion
session_delete(table, book) == table

\* BookResponse.model_validate(book, from_attributes=True)
BookResponse(book) == [c \in BookColumns |-> book[c]]

----------------------------------------------------------------------------
(* Inputs *)

Payloads == {[email |-> "a@x.com", user_uid |-> 1], [email |-> "b@x.com", user_uid |-> 2]}

\* the (expiry, refresh) arguments with which the routes call
\* generate_access_token: the defaults, and the refresh token's
IssueArgs ==
    {[expiry |-> None, refresh |-> FALSE],
     [expiry |-> [t |-> "timedelta", ticks |-> TimedeltaDays(REFRESH_TOKEN_EXPIRY)],
      refresh |-> TRUE]}

Emails == {"a@x.com", "b@x.com"}

Passwords == {<<112, 119>>, <<112, 119, 49>>, <<36, 1, 36, 113>>}

SignupRequests ==
    {[username |-> "user", email |-> e, password |-> p,
      first_name |-> "first", last_name |-> "last"] : e \in Emails, p \in Passwords}

\* passwords given to the hasher: short ones, and ones whose encodings end
\* just below, at and above the bcrypt limit, in a one-byte or a two-byte
\* character
LastChars == {97, 98, 233, 234}

LongPasswords ==
    {[i \in 1..n |-> IF i < n THEN 97 ELSE c] :
        n \in (BcryptLimit - 1)..(BcryptLimit + MaxOver), c \in LastChars}

HasherPasswords == {<<112, 119, 49>>, <<112, 119, 50>>} \cup LongPasswords

Salts == {1, 2}

\* bodies of POST /books/ and PUT /books/{uid}, and the uids asked for
BookCreates ==
    {[title |-> Str(<<84, 49>>), author |-> Str(<<65>>), publication |-> Str(<<80>>),
      price |-> Float(1)],
     [title |-> Str(<<32, 84, 50>>), author |-> Str(<<65>>), publication |-> Str(<<80>>),
      price |-> Float(2)]}

\* a body that sets no field, bodies that set some, a body that sets a
\* field to null
NoFields == [f \in {} |-> None]

BookUpdates ==
    {NoFields,
     [title |-> Str(<<84, 51, 32>>), price |-> Float(3)],
     [title |-> None]}

BookUids == 1..(MaxBooks + 1)

\* where the database fails during a request: nowhere, at the service's
\* flush, at the service's commit, at the commit of get_session
Faults == {"", "flush", "commit", "final_commit"}

\* the bodies of POST /auth/login
LoginRequests == {[email |-> e, password |-> p] : e \in Emails, p \in Passwords}

----------------------------------------------------------------------------
(* State machine *)

\* resp describes the operation performed by the last step
BaseResp ==
    [op |-> "", status |-> 0, detail |-> "", reason |-> "", calls |-> <<>>,
     claims |-> None, variant |-> "", header |-> NoHeader, jti |-> 0,
     result |-> None, token |-> None, request |-> None, persisted |-> None,
     body |-> None, uid |-> 0, session |-> <<>>]

OfGuard(op, variant, header, g) ==
    [BaseResp EXCEPT !.op = op, !.variant = variant, !.header = header,
                     !.status = g.status, !.detail = g.detail, !.reason = g.reason,
                     !.calls = g.calls, !.claims = g.claims]

Init ==
    /\ now = 0
    /\ users = {}
    /\ issued = {}
    /\ token_blocklist = {}
    /\ revoked = {}
    /\ submitted = {}
    /\ pending = <<>>
    /\ books = {}
    /\ resp = BaseResp

\* a generator that returns one value over and over
uuid4_repeating(calls) == 1

\* uuid.uuid4(): a value no earlier call has returned, calls being the number
\* of the earlier calls
uuid4(calls) == calls + 1

\* time passes; Redis drops the keys whose time to live has elapsed
Advance(t) ==
    /\ t > now
    /\ now' = t
    /\ token_blocklist' = RedisLive(token_blocklist, now')
    /\ resp' = [BaseResp EXCEPT !.op = "advance"]
    /\ UNCHANGED <<users, submitted, pending, books, issued, revoked>>

\* a call of generate_access_token
Issue(user_data, expiry, refresh) ==
    /\ Cardinality(issued) < MaxTokens
    /\ LET uuid == uuid4(Cardinality(issued))
           token == generate_access_token(user_data, expiry, refresh, now, uuid) IN
       /\ issued' = issued \cup {[token |-> token, user_data |-> user_data,
                                  expiry |-> expiry, refresh |-> refresh,
                                  jti |-> uuid, at |-> now]}
       /\ resp' = [BaseResp EXCEPT !.op = "generate_access_token", !.token = token]
    /\ UNCHANGED <<now, users, submitted, pending, books, token_blocklist, revoked>>

\* a call of add_jti_to_block_list; revoked keeps the jtis ever revoked
Revoke(jti) ==
    /\ token_blocklist' = add_jti_to_block_list(token_blocklist, jti, now)
    /\ revoked' = revoked \cup {jti}
    /\ resp' = [BaseResp EXCEPT !.op = "add_jti_to_block_list", !.jti = jti]
    /\ UNCHANGED <<now, users, submitted, pending, books, issued>>

\* a call of token_in_block_list
CheckRevoked(jti) ==
    /\ resp' = [BaseResp EXCEPT !.op = "token_in_block_list", !.jti = jti,
                                !.result = token_in_block_list(token_blocklist, jti, now)]
    /\ UNCHANGED <<now, users, submitted, pending, books, issued, token_blocklist, revoked>>

\* a request to a route that depends on AccessTokenBearer: the guard's run
AccessGuard(header) ==
    /\ resp' = OfGuard("access_token_bearer", "access", header,
                       TokenBearer_call("access", header, token_blocklist, now))
    /\ UNCHANGED <<now, users, submitted, pending, books, issued, token_blocklist, revoked>>

\* a handler that empties the revocation store
get_new_access_token_clearing(store, token_details, t) == {}

\* a handler that revokes the refresh token it was given
get_new_access_token_revoking(store, token_details, t) ==
    add_jti_to_block_list(store, token_details.jti, t)

\* the revocation store as get_new_access_token leaves it: the handler makes
\* no call on token_blocklist
get_new_access_token_writes(store, token_details, t) == store

\* GET /auth/refresh_token: RefreshTokenBearer runs at the current instant,
\* get_new_access_token reads the clock at t, not earlier; at most limit
\* tokens are issued
RefreshTokenAt(header, t, limit) ==
    LET g == TokenBearer_call("refresh", header, token_blocklist, now)
        r == OfGuard("get_new_access_token", "refresh", header, g) IN
    IF g.reason # "accepted"
    THEN /\ t = now
         /\ resp' = r
         /\ UNCHANGED <<now, users, submitted, pending, books, issued, token_blocklist, revoked>>
    ELSE LET token_details == g.claims
             expiry_timestamp == token_details.exp IN
         /\ t >= now
         /\ now' = t
         /\ token_blocklist' =
                RedisLive(get_new_access_token_writes(token_blocklist, token_details, now), t)
         /\ IF expiry_timestamp # 0 /\ expiry_timestamp * Res > Timestamp(t)
            THEN /\ Cardinality(issued) < limit
                 /\ LET uuid == uuid4(Cardinality(issued))
                        new_access_token ==
                            generate_access_token(token_details.user, None, FALSE, t, uuid) IN
                    /\ issued' = issued \cup {[token |-> new_access_token,
                                               user_data |-> token_details.user,
                                               expiry |-> None, refresh |-> FALSE,
                                               jti |-> uuid, at |-> t]}
                    /\ resp' = [r EXCEPT !.status = 200, !.token = new_access_token]
            ELSE /\ resp' = [r EXCEPT !.status = 400, !.detail = "Invalid or expired token"]
                 /\ UNCHANGED issued
         /\ UNCHANGED <<users, submitted, pending, books, revoked>>

\* the request whose handler runs within the tick in which its guard ran
RefreshToken(header) == RefreshTokenAt(header, now, MaxTokens)

\* POST /auth/signup: create_user_account; submitted keeps the email and the
\* password of every request that persisted a user
Signup(user_data) ==
    LET r == [BaseResp EXCEPT !.op = "signup", !.request = user_data] IN
    IF ~UserCreateModelValid(user_data)
    THEN /\ resp' = [r EXCEPT !.status = 422]
         /\ UNCHANGED <<now, users, submitted, pending, books, issued, token_blocklist, revoked>>
    ELSE IF user_exist(users, user_data.email)
    THEN /\ resp' = [r EXCEPT !.status = 403,
                              !.detail = "user already exist with this email"]
         /\ UNCHANGED <<now, users, submitted, pending, books, issued, token_blocklist, revoked>>
    ELSE /\ Cardinality(users) < MaxUsers
         /\ LET new_user == create_user(user_data, Cardinality(users) + 1, now) IN
            /\ users' = users \cup {new_user}
            /\ submitted' = submitted \cup {[email |-> user_data.email,
                                              password |-> user_data.password]}
            /\ resp' = [r EXCEPT !.status = IF ResponseValid(new_user) THEN 201 ELSE 500,
                                 !.persisted = new_user,
                                 !.body = IF ResponseValid(new_user)
                                          THEN UserResponse(new_user) ELSE None]
         /\ UNCHANGED <<now, books, issued, token_blocklist, revoked, pending>>

\* POST /auth/signup as concurrent requests run it: the handler up to the
\* await of user_exist, which reads the user table; pending keeps every
\* request begun, with the place it has reached
SignupCheck(user_data) ==
    LET r == [BaseResp EXCEPT !.op = "signup", !.request = user_data,
                              !.reason = "user_exist"] IN
    /\ UserCreateModelValid(user_data)
    /\ Len(pending) < MaxRequests
    /\ IF user_exist(users, user_data.email)
       THEN /\ resp' = [r EXCEPT !.status = 403,
                                 !.detail = "user already exist with this email"]
            /\ pending' = Append(pending, [user_data |-> user_data, pc |-> "done"])
       ELSE /\ resp' = r
            /\ pending' = Append(pending, [user_data |-> user_data, pc |-> "create_user"])
    /\ UNCHANGED <<now, books, users, submitted, issued, token_blocklist, revoked>>

\* the rest of the handler of a request that passed the check: create_user
\* inserts the row at the flush and commits, or the insert violates the
\* unique constraint, the exception leaves the handler, get_session rolls
\* back and the application's exception handler answers 500
SignupCreate(n) ==
    LET user_data == pending[n].user_data
        r == [BaseResp EXCEPT !.op = "signup", !.request = user_data,
                              !.reason = "create_user"] IN
    /\ pending[n].pc = "create_user"
    /\ pending' = [pending EXCEPT ![n].pc = "done"]
    /\ IF IntegrityError(users, user_data.email, unique)
       THEN /\ resp' = [r EXCEPT !.status = 500, !.detail = "IntegrityError"]
            /\ UNCHANGED <<users, submitted>>
       ELSE LET new_user == create_user(user_data, Cardinality(users) + 1, now) IN
            /\ users' = users \cup {new_user}
            /\ submitted' = submitted \cup {[email |-> user_data.email,
                                              password |-> user_data.password]}
            /\ resp' = [r EXCEPT !.status = IF ResponseValid(new_user) THEN 201 ELSE 500,
                                 !.persisted = new_user,
                                 !.body = IF ResponseValid(new_user)
                                          THEN UserResponse(new_user) ELSE None]
    /\ UNCHANGED <<now, books, issued, token_blocklist, revoked>>

\* POST /auth/login: login
Login(user_data) ==
    LET r == [BaseResp EXCEPT !.op = "login", !.request = user_data]
        email == user_data.email
        password == user_data.password
        user == get_user_by_email(users, email)
        forbidden == [r EXCEPT !.status = 403, !.detail = "Invalid email or password"]
    IN
    IF user = None
    THEN /\ resp' = forbidden
         /\ UNCHANGED <<now, users, submitted, pending, books, issued, token_blocklist, revoked>>
    ELSE IF ~HasAttr(user, "password_hash")
    THEN /\ resp' = [r EXCEPT !.status = 500, !.detail = "AttributeError"]
         /\ UNCHANGED <<now, users, submitted, pending, books, issued, token_blocklist, revoked>>
    ELSE
    LET password_valid == verify_password(password, user.password_hash) IN
    IF password_valid.raised # ""
    THEN /\ resp' = [r EXCEPT !.status = 500, !.detail = password_valid.raised]
         /\ UNCHANGED <<now, users, submitted, pending, books, issued, token_blocklist, revoked>>
    ELSE IF ~password_valid.value
    THEN /\ resp' = forbidden
         /\ UNCHANGED <<now, users, submitted, pending, books, issued, token_blocklist, revoked>>
    ELSE IF ~(HasAttr(user, "email") /\ HasAttr(user, "uid"))
    THEN /\ resp' = [r EXCEPT !.status = 500, !.detail = "AttributeError"]
         /\ UNCHANGED <<now, users, submitted, pending, books, issued, token_blocklist, revoked>>
    ELSE
    /\ Cardinality(issued) + 2 <= MaxTokens + MaxMinted
    /\ LET payload == [email |-> user.email, user_uid |-> Str(user.uid)]
           refresh_expiry == [t |-> "timedelta",
                              ticks |-> TimedeltaDays(REFRESH_TOKEN_EXPIRY)]
           access_jti == uuid4(Cardinality(issued))
           refresh_jti == uuid4(Cardinality(issued) + 1)
           access_token == generate_access_token(payload, None, FALSE, now, access_jti)
           refresh_token ==
               generate_access_token(payload, refresh_expiry, TRUE, now, refresh_jti)
       IN /\ issued' = issued \cup
                 {[token |-> access_token, user_data |-> payload, expiry |-> None,
                   refresh |-> FALSE, jti |-> access_jti, at |-> now],
                  [token |-> refresh_token, user_data |-> payload,
                   expiry |-> refresh_expiry, refresh |-> TRUE, jti |-> refresh_jti,
                   at |-> now]}
          /\ resp' = [r EXCEPT !.status = 200,
                               !.body = [message |-> "Login successful",
                                         access_token |-> access_token,
                                         refresh_token |-> refresh_token,
                                         user |-> [email |-> user.email,
                                                   uid |-> Str(user.uid)]]]
    /\ UNCHANGED <<now, users, submitted, pending, books, token_blocklist, revoked>>

IssuedJtis == {i.token.payload.jti : i \in issued}

\* the token flow
Next ==
    \/ \E t \in Instants : Advance(t)
    \/ \E u \in Payloads, a \in IssueArgs : Issue(u, a.expiry, a.refresh)
    \/ \E j \in IssuedJtis : Revoke(j)
    \/ \E j \in IssuedJtis : CheckRevoked(j)
    \/ \E h \in Headers : AccessGuard(h)
    \/ \E h \in Headers : RefreshToken(h)

Spec == Init /\ [][Next]_vars

\* a call of generate_password_hash, bcrypt.gensalt() returning salt
HashPassword(password, salt) ==
    /\ resp' = [BaseResp EXCEPT
                    !.op = "generate_password_hash",
                    !.request = [password |-> password, hashed |-> password,
                                 hash |-> generate_password_hash(password, salt)]]
    /\ UNCHANGED <<now, users, submitted, pending, books, issued, token_blocklist, revoked>>

\* a call of verify_password on a hash that generate_password_hash returned
VerifyPassword(password) ==
    /\ resp.op \in {"generate_password_hash", "verify_password"}
    /\ resp' = [BaseResp EXCEPT
                    !.op = "verify_password",
                    !.request = [resp.request EXCEPT !.password = password],
                    !.result = verify_password(password, resp.request.hash)]
    /\ UNCHANGED <<now, users, submitted, pending, books, issued, token_blocklist, revoked>>

\* concurrent signups
NextSignups ==
    \/ \E t \in Instants : Advance(t)
    \/ \E q \in SignupRequests : SignupCheck(q)
    \/ \E n \in DOMAIN pending : SignupCreate(n)

SpecSignups == Init /\ [][NextSignups]_vars

\* the password hasher
NextPasswords ==
    \/ \E p \in HasherPasswords, salt \in Salts : HashPassword(p, salt)
    \/ \E p \in HasherPasswords : VerifyPassword(p)

SpecPasswords == Init /\ [][NextPasswords]_vars

\* the refresh flow: refresh tokens are issued, revoked and presented to the
\* refresh route, whose handler may run later than its guard, together with
\* the access tokens the route has returned
RefreshArgs == {a \in IssueArgs : a.refresh}

RefreshJtis == {i.jti : i \in {k \in issued : k.refresh}}

RefreshHeaders ==
    {[present |-> TRUE, scheme |-> "Bearer", credentials |-> tok] : tok \in IssuedTokens}

NextRefresh ==
    \/ \E t \in Instants : Advance(t)
    \/ \E u \in Payloads, a \in RefreshArgs : Issue(u, a.expiry, a.refresh)
    \/ \E j \in RefreshJtis : Revoke(j)
    \/ \E h \in RefreshHeaders, t \in Instants :
           RefreshTokenAt(h, t, MaxTokens + MaxMinted)

SpecRefresh == Init /\ [][NextRefresh]_vars

\* requests of every kind on a server with a user, tokens and revocations:
\* one user signs up, logins come for that user's email and for another, and
\* the tokens are that user's
OneEmail == "a@x.com"

OnePassword == <<112, 119, 49>>

NextRequests ==
    \/ \E t \in Instants : Advance(t)
    \/ \E q \in {r \in SignupRequests : r.email = OneEmail /\ r.password = OnePassword} :
           Signup(q)
    \/ \E q \in {r \in LoginRequests : r.password = OnePassword} : Login(q)
    \/ \E u \in {v \in Payloads : v.email = OneEmail}, a \in IssueArgs :
           Issue(u, a.expiry, a.refresh)
    \/ \E j \in IssuedJtis : Revoke(j)
    \/ \E h \in RefreshHeaders : AccessGuard(h)
    \/ \E h \in RefreshHeaders : RefreshTokenAt(h, now, MaxTokens + 1)

SpecRequests == Init /\ [][NextRequests]_vars

\* a request on /books: resp.session lists the calls made on the request's
\* session, by the service and then by get_session, in order, with between
\* them how the code that get_session yielded to ended, and
\* resp.reason names the exception the database raised during the request
BookResp(op, request, uid, fault) ==
    [BaseResp EXCEPT !.op = op, !.request = request, !.uid = uid,
                     !.reason = IF fault = "" THEN "" ELSE "OperationalError"]

\* get_session after the handler returned: commit, and where that commit
\* fails rollback and re-raise; close in both cases.  The response of a
\* request whose handler had returned is the handler's or a 500.
SessionEnd(calls, fault) ==
    IF fault = "final_commit"
    THEN calls \o <<"returned", "commit", "rollback", "close">>
    ELSE calls \o <<"returned", "commit", "close">>

\* get_session after the handler raised: rollback, re-raise, close
SessionAbort(calls) == calls \o <<"raised", "rollback", "close">>

EndStatuses(status, fault) ==
    IF fault = "final_commit" THEN {status, 500} ELSE {status}

\* POST /books/: create_book
CreateBook(book_data, fault) ==
    LET r == BookResp("create_book", book_data, 0, fault)
        new_book == [Book(BookCreate_model_dump(book_data), uuid4(Cardinality(books)))
                         EXCEPT !.created_at = Datetime(now)] IN
    /\ BookCreateValid(book_data)
    /\ Cardinality(books) < MaxBooks
    /\ fault \in {"", "flush", "commit"}
    /\ IF fault = "flush"
       THEN /\ books' = Rollback(books, books)
            /\ resp' = [r EXCEPT !.status = 500, !.detail = "Failed to create book",
                                 !.session = SessionAbort(<<"add", "flush", "rollback">>)]
       ELSE IF fault = "commit"
       THEN /\ books' = Rollback(books, books \cup {new_book})
            /\ resp' = [r EXCEPT !.status = 500, !.detail = "Failed to create book",
                                 !.session = SessionAbort(<<"add", "flush", "refresh",
                                                            "commit", "rollback">>)]
       ELSE /\ books' = Commit(books, books \cup {new_book})
            /\ resp' = [r EXCEPT !.status = 201, !.uid = new_book.uid,
                                 !.body = BookResponse(new_book),
                                 !.session = SessionEnd(<<"add", "flush", "refresh",
                                                          "commit">>, fault)]
    /\ UNCHANGED <<now, users, submitted, pending, issued, token_blocklist, revoked>>

\* GET /books/{book_uid}: get_book
GetBook(book_uid, fault) ==
    LET r == BookResp("get_book", None, book_uid, fault)
        book == get_book_by_id(books, book_uid) IN
    /\ fault \in {"", "final_commit"}
    /\ IF book = None
       THEN /\ fault = ""
            /\ resp' = [r EXCEPT !.status = 404, !.detail = "Book not found",
                                 !.session = SessionAbort(<<"execute">>)]
       ELSE \E st \in EndStatuses(200, fault) :
               resp' = [r EXCEPT !.status = st,
                                 !.body = IF st = 200 THEN BookResponse(book) ELSE None,
                                 !.session = SessionEnd(<<"execute">>, fault)]
    /\ UNCHANGED <<now, users, books, submitted, pending, issued, token_blocklist, revoked>>

\* GET /books/: AccessTokenBearer, then get_all_books
GetAllBooks(header, skip, limit) ==
    LET g == TokenBearer_call("access", header, token_blocklist, now)
        r == OfGuard("get_all_books", "access", header, g) IN
    /\ IF g.reason # "accepted"
       THEN resp' = [r EXCEPT !.session = SessionAbort(<<>>)]
       ELSE resp' = [r EXCEPT !.status = 200,
                              !.body = get_all_books(books, skip, limit),
                              !.session = SessionEnd(<<"execute">>, "")]
    /\ UNCHANGED <<now, users, books, submitted, pending, issued, token_blocklist, revoked>>

\* PUT /books/{book_uid}: update_book
UpdateBook(book_uid, book_data, fault) ==
    LET r == BookResp("update_book", book_data, book_uid, fault)
        book_to_update == get_book_by_id(books, book_uid)
        update_data == BookUpdate_model_dump(book_data) IN
    /\ BookUpdateValid(book_data)
    /\ IF book_to_update = None
       THEN /\ fault = ""
            /\ books' = books
            /\ resp' = [r EXCEPT !.status = 404, !.detail = "Book not found",
                                 !.session = SessionAbort(<<"execute">>)]
       ELSE IF DOMAIN update_data = {}
       THEN /\ fault \in {"", "final_commit"}
            /\ books' = books
            /\ \E st \in EndStatuses(200, fault) :
                  resp' = [r EXCEPT !.status = st,
                                    !.body = IF st = 200 THEN BookResponse(book_to_update)
                                             ELSE None,
                                    !.session = SessionEnd(<<"execute">>, fault)]
       ELSE LET set == SetAttrs(book_to_update, update_data)
                row == IF set = book_to_update THEN set
                       ELSE [set EXCEPT !.updated_at = Datetime(now)] IN
            /\ fault \in {"", "flush", "commit"}
            /\ IF fault = "flush" \/ NotNullViolation(set)
               THEN /\ fault # "commit"
                    /\ books' = Rollback(books, books)
                    /\ resp' = [r EXCEPT !.status = 500, !.detail = "Failed to update book",
                                         !.reason = IF fault = "flush" THEN "OperationalError"
                                                    ELSE "IntegrityError",
                                         !.session = SessionAbort(<<"execute", "add", "flush",
                                                                    "rollback">>)]
               ELSE IF fault = "commit"
               THEN /\ books' = Rollback(books, (books \ {book_to_update}) \cup {row})
                    /\ resp' = [r EXCEPT !.status = 500, !.detail = "Failed to update book",
                                         !.session = SessionAbort(<<"execute", "add", "flush",
                                                                    "refresh", "commit",
                                                                    "rollback">>)]
               ELSE /\ books' = Commit(books, (books \ {book_to_update}) \cup {row})
                    /\ resp' = [r EXCEPT !.status = 200, !.body = BookResponse(row),
                                         !.session = SessionEnd(<<"execute", "add", "flush",
                                                                  "refresh", "commit">>, fault)]
    /\ UNCHANGED <<now, users, submitted, pending, issued, token_blocklist, revoked>>

\* DELETE /books/{book_uid}: delete_book
DeleteBook(book_uid, fault) ==
    LET r == BookResp("delete_book", None, book_uid, fault)
        book_to_delete == get_book_by_id(books, book_uid) IN
    /\ fault \in {"", "commit"}
    /\ IF book_to_delete = None
       THEN /\ fault = ""
            /\ books' = books
            /\ resp' = [r EXCEPT !.status = 404, !.detail = "Book not found",
                                 !.session = SessionAbort(<<"execute">>)]
       ELSE IF fault = "commit"
       THEN /\ books' = Rollback(books, session_delete(books, book_to_delete))
            /\ resp' = [r EXCEPT !.status = 500, !.detail = "Failed to delete book",
                                 !.session = SessionAbort(<<"execute", "commit", "rollback">>)]
       ELSE /\ books' = Commit(books, session_delete(books, book_to_delete))
            /\ resp' = [r EXCEPT !.status = 204,
                                 !.session = SessionEnd(<<"execute", "commit">>, fault)]
    /\ UNCHANGED <<now, users, submitted, pending, issued, token_blocklist, revoked>>

\* the books API, with one access token for the list route
NextBooks ==
    \/ \E u \in {v \in Payloads : v.email = OneEmail} :
           issued = {} /\ Issue(u, None, FALSE)
    \/ \E b \in BookCreates, f \in Faults : CreateBook(b, f)
    \/ \E k \in BookUids, f \in Faults : GetBook(k, f)
    \/ \E h \in RefreshHeaders \cup {NoHeader}, skip \in 0..1, limit \in {1, 100} :
           GetAllBooks(h, skip, limit)
    \/ \E k \in BookUids, b \in BookUpdates, f \in Faults : UpdateBook(k, b, f)
    \/ \E k \in BookUids, f \in Faults : DeleteBook(k, f)

SpecBooks == Init /\ [][NextBooks]_vars

\* the user table
NextUsers ==
    \/ \E t \in Instants : Advance(t)
    \/ \E q \in SignupRequests : Signup(q)
    \/ \E q \in LoginRequests : Login(q)

SpecUsers == Init /\ [][NextUsers]_vars

----------------------------------------------------------------------------
(* Properties *)

PyBool(b) == [t |-> "bool", v |-> b]

GuardOps == {"access_token_bearer", "get_new_access_token"}

\* the last step was a guard run on a well-formed Bearer credential
BearerRun ==
    /\ resp.op \in GuardOps
    /\ resp.header.present
    /\ resp.header.scheme = "Bearer"
    /\ resp.header.credentials # None

\* the claims of the presented token as decode_token gives them now
PresentedClaims == decode_token(resp.header.credentials, now).value

\* the jti has a record in the revocation store whose TTL has not elapsed
Recorded(jti) == \E e \in RedisLive(token_blocklist, now) : e.name = jti

\* the exp an issuance at time i.at puts into the token
ExpAtIssuance(i) ==
    IntSeconds(i.at + (IF i.expiry = None THEN TimedeltaSeconds(ACCESS_TOKEN_EXPIRY)
                       ELSE i.expiry.ticks))

\* C1: a call of token_in_block_list(jti) returns the boolean true while a
\* revocation record of jti is in the store (from the revoke on, until its TTL
\* has elapsed), and returns a false value for a jti that was never revoked.
C1_RevokedIsReported ==
    resp.op = "token_in_block_list" =>
        /\ Recorded(resp.jti) => resp.result = PyBool(TRUE)
        /\ resp.jti \notin revoked => ~Truthy(resp.result)

\* C2: a guard run (either variant) on a token that decodes and whose jti is
\* recorded in the revocation store ends in Rejected(revoked), 403, and hands
\* no claims to the route handler.
C2_RevokedTokenRejected ==
    (BearerRun /\ PresentedClaims # None /\ Recorded(PresentedClaims.jti)) =>
        /\ resp.reason = "revoked"
        /\ resp.status = 403
        /\ resp.claims = None
        /\ resp.token = None

\* C3: a guard run on an issued token (access or refresh) whose jti has been
\* revoked at some earlier time, made before the token's exp, rejects it.
C3_RevokedUntilExp ==
    \A i \in issued :
        (BearerRun /\ resp.header.credentials = i.token /\ i.jti \in revoked
            /\ Timestamp(now) < i.token.payload.exp * Res) =>
        (resp.status = 403 /\ resp.claims = None)

C5_DecodeOfIssue ==
    \A i \in issued :
        Timestamp(now) < ExpAtIssuance(i) * Res =>
            decode_token(i.token, now) =
                [raised |-> "",
                 value |-> [t |-> "dict", user |-> i.user_data, exp |-> ExpAtIssuance(i),
                            jti |-> i.jti, refresh |-> i.refresh]]

C5_Witness ==
    \E i \in issued :
        /\ i.user_data.email = "b@x.com"
        /\ now > i.at
        /\ Timestamp(now) < ExpAtIssuance(i) * Res
        /\ BearerRun
        /\ resp.header.credentials = i.token
        /\ resp.reason = "accepted"
        /\ resp.claims.user = i.user_data
        /\ resp.claims.refresh = i.refresh

\* C6: at every instant after an issued token's exp, decode_token returns no
\* claims for it and a guard run on it rejects the request.
C6_ExpiredNeverDecodes ==
    \A i \in issued :
        Timestamp(now) > ExpAtIssuance(i) * Res =>
            /\ decode_token(i.token, now).value = None
            /\ (BearerRun /\ resp.header.credentials = i.token) =>
                 (resp.status = 403 /\ resp.reason = "invalid_or_expired"
                    /\ resp.claims = None /\ resp.token = None)

C6_Witness ==
    \E i \in issued :
        /\ i.refresh
        /\ Timestamp(now) > ExpAtIssuance(i) * Res
        /\ resp.op = "get_new_access_token"
        /\ resp.header.scheme = "Bearer"
        /\ resp.header.credentials = i.token
        /\ resp.status = 403

\* C7: a token string made from an issued token by changing its signature, or
\* its claims under the same signature, never decodes, and no guard accepts it.
C7_TamperedNeverDecodes ==
    \A tok \in Tampered :
        /\ decode_token(tok, now).value = None
        /\ (BearerRun /\ resp.header.credentials = tok) =>
             (resp.reason # "accepted" /\ resp.status = 403 /\ resp.claims = None
                /\ resp.token = None)

C7_Witness ==
    \E i \in issued :
        /\ decode_token(i.token, now).value # None
        /\ BearerRun
        /\ resp.header.credentials = [i.token EXCEPT !.sig = AlterByte(@)]
        /\ resp.status = 403

\* C8: decode_token never raises: for every token string it returns the parsed
\* claims or None, and it returns None for bad signature, wrong algorithm,
\* malformed structure and elapsed expiry alike.
C8_DecodeNeverRaises ==
    \A tok \in Presentable :
        LET r == jwt_decode(tok, JWT_SECRET_KEY, {JWT_ALGORITHM}, now)
            d == decode_token(tok, now)
        IN /\ d.raised = ""
           /\ r.error = "" => (d.value = r.claims /\ d.value # None)
           /\ r.error # "" => d.value = None

C8_Witness ==
    /\ \A k \in PyJWTError :
          \E tok \in Presentable :
              jwt_decode(tok, JWT_SECRET_KEY, {JWT_ALGORITHM}, now).error = k
    /\ BearerRun
    /\ jwt_decode(resp.header.credentials, JWT_SECRET_KEY, {JWT_ALGORITHM}, now).error
           = "ExpiredSignatureError"
    /\ resp.reason = "invalid_or_expired"

\* C9: a request without an Authorization header, or with one that is not a
\* well-formed Bearer credential, ends in Rejected(missing_credentials): the
\* guard calls neither decode_token nor the revocation store, and the handler
\* is not run.
C9_MissingCredentials ==
    (resp.op \in GuardOps /\ ~BearerRun) =>
        /\ resp.reason = "missing_credentials"
        /\ resp.status \in {401, 403}
        /\ resp.calls = <<"HTTPBearer">>
        /\ resp.claims = None
        /\ resp.token = None

C9_Witness ==
    /\ resp.op = "get_new_access_token"
    /\ resp.header.present
    /\ resp.header.scheme = "Basic"
    /\ decode_token(resp.header.credentials, now).value # None
    /\ resp.reason = "missing_credentials"

\* C10: the password persisted for a user created by signup is a hash produced
\* by generate_password_hash and differs from the plaintext submitted.
C10_StoredPasswordIsHash ==
    (resp.op = "signup" /\ resp.persisted # None) =>
        LET stored == StoredPassword(resp.persisted) IN
        /\ stored # None
        /\ \E salt \in Salts : stored.v = generate_password_hash(resp.request.password, salt)
        /\ stored.v # resp.request.password

\* C11: a signup with valid data whose email no user has persists exactly one
\* user with that email and responds 201 with the public fields of that user
\* (uid, username, email, names, verification flag, timestamps), and the
\* response holds no password and no hash.
C11_SignupCreated ==
    [][\A q \in SignupRequests :
          (/\ resp'.op = "signup"
           /\ resp'.request = q
           /\ UserCreateModelValid(q)
           /\ ~\E u \in users : u.email = q.email) =>
          /\ Cardinality(users') = Cardinality(users) + 1
          /\ Cardinality({u \in users' : u.email = q.email}) = 1
          /\ resp'.status = 201
          /\ resp'.body # None
          /\ DOMAIN resp'.body = UserResponseFields
          /\ resp'.body.email = q.email]_vars

\* C12: once a signup has persisted a user with email e, every later signup
\* with valid data and email e is rejected with 403 "user already exist with
\* this email" and leaves the set of users unchanged.
C12_DuplicateEmailRejected ==
    [][\A q \in SignupRequests :
          (/\ resp'.op = "signup"
           /\ resp'.request = q
           /\ UserCreateModelValid(q)
           /\ \E u \in users : u.email = q.email) =>
          /\ resp'.status = 403
          /\ resp'.detail = "user already exist with this email"
          /\ resp'.persisted = None
          /\ users' = users]_vars

C12_Witness ==
    /\ resp.op = "signup"
    /\ UserCreateModelValid(resp.request)
    /\ resp.status = 403
    /\ \E u \in users : u.email = resp.request.email /\ now > u.created_at.ts
    /\ Cardinality(users) = 1

\* the email of the last request is that of a persisted user
Registered == \E c \in submitted : c.email = resp.request.email

\* the password of the last request is, up to the bcrypt limit, the one
\* submitted at the signup of the user with the request's email
PasswordMatches ==
    \E c \in submitted :
        /\ c.email = resp.request.email
        /\ Truncate(Utf8(c.password)) = Truncate(Utf8(resp.request.password))

\* C13: a login with a registered email and a wrong password is answered
\* exactly as a login with an unknown email, with 403 "Invalid email or
\* password", and neither issues a token.
C13_SameFailureResponse ==
    (resp.op = "login" /\ (~Registered \/ ~PasswordMatches)) =>
        /\ resp.status = 403
        /\ resp.detail = "Invalid email or password"
        /\ resp.body = None
        /\ issued = {}

\* C14: a login with a registered email and its password returns 200 with one
\* access token (refresh false, exp = now + ACCESS_TOKEN_EXPIRY seconds) and
\* one refresh token (refresh true, exp = now + REFRESH_TOKEN_EXPIRY days),
\* both carrying the user's email and uid, with different jtis.
C14_LoginIssuesTokenPair ==
    (resp.op = "login" /\ Registered /\ PasswordMatches) =>
        /\ resp.status = 200
        /\ resp.body # None
        /\ LET access == resp.body.access_token.payload
               refresh == resp.body.refresh_token.payload
           IN /\ ~access.refresh
              /\ access.exp = IntSeconds(now + TimedeltaSeconds(ACCESS_TOKEN_EXPIRY))
              /\ refresh.refresh
              /\ refresh.exp = IntSeconds(now + TimedeltaDays(REFRESH_TOKEN_EXPIRY))
              /\ access.user = refresh.user
              /\ access.user.email = resp.request.email
              /\ \E u \in users : u.email = resp.request.email
                                     /\ access.user.user_uid = Str(u.uid)
              /\ access.jti # refresh.jti

\* the tokens other than the one the last step returned
Earlier == {i \in issued : i.token # resp.token}

\* C15: for every refresh token the refresh guard accepted, the handler of
\* GET /auth/refresh_token returns 200 with a new token whose refresh is
\* false, whose user is that of the refresh token, whose jti no other issued
\* token has and whose exp is now + ACCESS_TOKEN_EXPIRY; when the refresh
\* token's exp has passed at the handler's check it answers 400 and returns
\* no token.
C15_RefreshMintsAccessToken ==
    (resp.op = "get_new_access_token" /\ resp.reason = "accepted") =>
        IF resp.claims.exp * Res > Timestamp(now)
        THEN /\ resp.status = 200
             /\ resp.token \in IssuedTokens
             /\ ~resp.token.payload.refresh
             /\ resp.token.payload.user = resp.claims.user
             /\ resp.token.payload.jti # resp.claims.jti
             /\ \A i \in Earlier : i.token.payload.jti # resp.token.payload.jti
             /\ resp.token.payload.exp =
                    IntSeconds(now + TimedeltaSeconds(ACCESS_TOKEN_EXPIRY))
             /\ decode_token(resp.token, now).value # None
        ELSE /\ resp.status = 400
             /\ resp.detail = "Invalid or expired token"
             /\ resp.token = None

\* a refresh token of the second user was exchanged for an access token, and
\* a later request with it, whose handler ran after the token's exp, was
\* refused
C15_Witness ==
    /\ resp.op = "get_new_access_token"
    /\ resp.reason = "accepted"
    /\ resp.claims.user.email = "b@x.com"
    /\ resp.status = 400
    /\ resp.claims.exp * Res < Timestamp(now)
    /\ \E i \in issued :
          /\ ~i.refresh
          /\ i.user_data = resp.claims.user
          /\ i.token.payload.exp = IntSeconds(i.at + TimedeltaSeconds(ACCESS_TOKEN_EXPIRY))
          /\ i.at > 0

\* C16: the refresh route neither rotates nor revokes: a request to it adds
\* nothing to the revocation store and takes no issued token away, and a
\* refresh token that is not revoked is accepted whenever it is presented
\* before its exp, however often it was presented before, and yields another
\* access token each time.
C16_RefreshTokenReusable ==
    [][resp'.op = "get_new_access_token" =>
          /\ token_blocklist' = RedisLive(token_blocklist, now')
          /\ revoked' = revoked
          /\ issued \subseteq issued'
          /\ \A i \in issued :
                (/\ i.refresh
                 /\ resp'.header.credentials = i.token
                 /\ i.jti \notin revoked
                 /\ Timestamp(now') < i.token.payload.exp * Res) =>
                /\ resp'.reason = "accepted"
                /\ resp'.status = 200
                /\ resp'.token \notin {j.token : j \in issued}
                /\ resp'.token \in {j.token : j \in issued'}]_vars

\* a refresh token that was never revoked has been exchanged a second time
C16_Witness ==
    /\ resp.op = "get_new_access_token"
    /\ resp.status = 200
    /\ \E i \in issued :
          /\ i.refresh
          /\ resp.header.credentials = i.token
          /\ i.jti \notin revoked
          /\ Cardinality({j \in issued : ~j.refresh /\ j.user_data = i.user_data}) >= 2

\* values of the ACCESS_TOKEN_EXPIRY setting: the default, and one that the
\* environment gives in its place
AccessTokenExpirySettings == {ACCESS_TOKEN_EXPIRY, 2 * ACCESS_TOKEN_EXPIRY}

\* C17: for every configured ACCESS_TOKEN_EXPIRY, the time to live of the
\* record that a revocation of a jti writes is that access-token lifetime.
C17_TtlIsAccessLifetime ==
    resp.op = "add_jti_to_block_list" =>
        \A c \in AccessTokenExpirySettings :
            \A e \in token_blocklist :
                e.name = resp.jti => e.expireAt = now + TimedeltaSeconds(c)

\* the first n of a sequence of bytes
FirstBytes(bytes, n) == [i \in 1..(IF Len(bytes) < n THEN Len(bytes) ELSE n) |-> bytes[i]]

\* C18: verify_password(p2, generate_password_hash(p)) raises nothing and is
\* true exactly when the UTF-8 encodings of p and p2 agree on their first 72
\* bytes: true for p itself and for a password that differs from p only
\* after byte 72, false for one that differs within the first 72 bytes.
C18_VerifyUpToLimit ==
    resp.op = "verify_password" =>
        /\ resp.result.raised = ""
        /\ resp.result.value <=>
              FirstBytes(Utf8(resp.request.hashed), BcryptLimit)
                  = FirstBytes(Utf8(resp.request.password), BcryptLimit)
        /\ resp.request.password = resp.request.hashed => resp.result.value

\* two different passwords longer than the limit, one hashed and the other
\* verified against the hash
C18_Witness ==
    /\ resp.op = "verify_password"
    /\ resp.request.password # resp.request.hashed
    /\ Len(Utf8(resp.request.password)) > BcryptLimit
    /\ Len(Utf8(resp.request.hashed)) > BcryptLimit
    /\ Len(resp.request.password) = BcryptLimit
    /\ resp.result.value

BearerOf(tok) == [present |-> TRUE, scheme |-> "Bearer", credentials |-> tok]

\* C20: any two issued tokens, whichever route issued them, carry different
\* jtis, and the revocation of one jti leaves unchanged the verdict of either
\* guard on every issued token with another jti.
C20_JtiUniqueAndIndependent ==
    [][/\ \A i, j \in issued' : i # j => i.token.payload.jti # j.token.payload.jti
       /\ resp'.op = "add_jti_to_block_list" =>
             \A i \in issued : \A v \in {"access", "refresh"} :
                 i.token.payload.jti # resp'.jti =>
                     TokenBearer_call(v, BearerOf(i.token), token_blocklist', now')
                         = TokenBearer_call(v, BearerOf(i.token), token_blocklist, now)]_vars

\* a refresh token is revoked after two access tokens were made from it, and
\* one of them is still accepted by the access guard
C20_Witness ==
    /\ resp.op = "add_jti_to_block_list"
    /\ Cardinality(issued) >= 3
    /\ Cardinality(IssuedJtis) = Cardinality(issued)
    /\ \E e \in token_blocklist : e.name = resp.jti
    /\ \E i \in issued :
          /\ i.jti # resp.jti
          /\ TokenBearer_call("access", BearerOf(i.token), token_blocklist, now).reason
                 = "accepted"

\* the last step ended a signup whose email another user holds
LostRace ==
    /\ resp.op = "signup"
    /\ resp.status # 0
    /\ \E u \in users : u.email = resp.request.email /\ u # resp.persisted

\* C21: under every interleaving of concurrent signups a request ends with
\* 201 or with 403, and a request that loses the race for its email, the
\* email being held by another request's user when it ends, gets the 403
\* "user already exist with this email" and no other outcome.
C21_RaceLoserGets403 ==
    LostRace =>
        /\ resp.status = 403
        /\ resp.detail = "user already exist with this email"

\* C29: in every reachable state, under any interleaving of concurrent
\* signups, the user table holds at most one user per email: of two racing
\* signups for one email that both passed the check, only one persists a
\* user.
C29_OneUserPerEmail ==
    /\ \A u1, u2 \in users : u1.email = u2.email => u1 = u2
    /\ (resp.op = "signup" /\ resp.detail = "IntegrityError") => resp.persisted = None

\* two requests for one email passed the check before either inserted, and
\* the second insert was refused
C29_Witness ==
    /\ resp.op = "signup"
    /\ resp.reason = "create_user"
    /\ resp.detail = "IntegrityError"
    /\ Cardinality({u \in users : u.email = resp.request.email}) = 1
    /\ Cardinality({n \in DOMAIN pending :
                        pending[n].user_data.email = resp.request.email}) >= 2

\* the calls of a guard run that goes through all its steps
GuardSteps == <<"HTTPBearer", "decode_token", "token_in_block_list", "verify_token_data">>

\* revocation stores to run a guard against: the empty one, the current one,
\* and the current one with the jti of an issued token added
Stores ==
    {{}, token_blocklist}
        \cup {add_jti_to_block_list(token_blocklist, j, now) : j \in IssuedJtis}

\* C22: a guard run takes its steps in the order receive, decode, revocation
\* check, type check, accept: the store is asked only after the decode
\* succeeded, the type is checked only after the store was asked, and claims
\* are returned only after all of them, and are the decoded claims; a token
\* that does not decode is rejected with 403 whatever the store holds.
C22_GuardStepOrder ==
    BearerRun =>
        /\ resp.calls = SubSeq(GuardSteps, 1, Len(resp.calls))
        /\ Len(resp.calls) > 2 <=> PresentedClaims # None
        /\ PresentedClaims # None => Len(resp.calls) = Len(GuardSteps)
        /\ resp.claims # None =>
              /\ resp.reason = "accepted"
              /\ resp.calls = GuardSteps
              /\ resp.claims = PresentedClaims
        /\ PresentedClaims = None =>
              \A store \in Stores :
                  LET g == TokenBearer_call(resp.variant, resp.header, store, now) IN
                  /\ g.status = 403
                  /\ g.reason = "invalid_or_expired"
                  /\ g.claims = None
                  /\ g.status = resp.status

\* a token with an altered signature is refused at the decode while the store
\* holds a record of the jti it names
C22_Witness ==
    /\ BearerRun
    /\ resp.header.credentials \in Tampered
    /\ Recorded(resp.header.credentials.payload.jti)
    /\ resp.reason = "invalid_or_expired"
    /\ resp.calls = <<"HTTPBearer", "decode_token">>

ValidatingOps == GuardOps \cup {"login"}

\* C23: token validation has no side effect and depends only on the token,
\* the time and the revocation store: a guard run, a login and a refresh
\* leave the revocation store and the user table as they were, the verdict of
\* a guard run is the one the token, the time and the store determine,
\* whatever requests ran before, and a run repeated at the same time on the
\* same store gives the same verdict.
C23_ValidationSideEffectFree ==
    [][resp'.op \in ValidatingOps =>
          /\ users' = users
          /\ token_blocklist' = token_blocklist
          /\ revoked' = revoked
          /\ resp'.op \in GuardOps =>
                LET g == TokenBearer_call(resp'.variant, resp'.header, token_blocklist, now)
                IN /\ resp'.reason = g.reason
                   /\ resp'.claims = g.claims
                   /\ resp'.calls = g.calls
          /\ (/\ resp.op \in GuardOps
              /\ resp'.op \in GuardOps
              /\ resp'.header = resp.header
              /\ resp'.variant = resp.variant
              /\ now' = now) =>
                (resp'.reason = resp.reason /\ resp'.claims = resp.claims)]_vars

\* a refresh token was exchanged on a server that has a user and a record in
\* the revocation store
C23_Witness ==
    /\ resp.op = "get_new_access_token"
    /\ resp.status = 200
    /\ users # {}
    /\ token_blocklist # {}
    /\ Cardinality(issued) > 1

\* the last request was a delete_book that returned: the route answered 204
DeleteReturned == resp.op = "delete_book" /\ resp.status = 204

\* C24: after delete_book(uid) has returned successfully for an existing
\* book the book is removed: get_book_by_id(uid) returns None, so that a GET
\* answers 404 and a second delete_book raises BookNotFoundError, and the
\* book is not among get_all_books.
C24_DeletedBookIsGone ==
    DeleteReturned =>
        /\ get_book_by_id(books, resp.uid) = None
        /\ LET all_books == get_all_books(books, 0, 100) IN
           \A n \in DOMAIN all_books : all_books[n].uid # resp.uid

\* the value a field of the request supplies, as BookUpdate validates it
Supplied(value) == IF value = None THEN None ELSE
                   IF value.t = "str" THEN Str(Strip(value.v)) ELSE value

\* C25: update_book is a partial update: for an existing book, unless the
\* database is down, exactly the fields present in the request take the
\* supplied values, every other field keeps its value, the uid is not
\* changed, no other book is modified, and a request that provides no field
\* returns the book unchanged without a write.
C25_PartialUpdate ==
    [][(/\ resp'.op = "update_book"
        /\ resp'.reason # "OperationalError"
        /\ get_book_by_id(books, resp'.uid) # None) =>
          LET old == get_book_by_id(books, resp'.uid)
              new == get_book_by_id(books', resp'.uid)
              request == resp'.request IN
          /\ new # None
          /\ \A f \in DOMAIN request : new[f] = Supplied(request[f])
          /\ \A f \in (BookFields \ DOMAIN request) \cup {"uid", "created_at"} :
                new[f] = old[f]
          /\ books' \ {new} = books \ {old}
          /\ DOMAIN request = {} =>
                /\ books' = books
                /\ resp'.body = BookResponse(old)
                /\ \A n \in DOMAIN resp'.session :
                      resp'.session[n] \notin {"add", "flush"}]_vars

\* C26: update_book, delete_book and get_book on a uid that matches no
\* stored book answer 404, never 500, and leave the stored books unchanged.
C26_UnknownUidIs404 ==
    [][(/\ resp'.op \in {"update_book", "delete_book", "get_book"}
        /\ \A b \in books : b.uid # resp'.uid) =>
          /\ resp'.status = 404
          /\ resp'.body = None
          /\ books' = books]_vars

C26_Witness ==
    /\ resp.op = "update_book"
    /\ resp.status = 404
    /\ DOMAIN resp.request # {}
    /\ books # {}
    /\ \A b \in books : b.uid # resp.uid

\* the requests of the books API, and those that write
BookOps == {"create_book", "get_book", "get_all_books", "update_book", "delete_book"}

BookWrites == {"create_book", "update_book", "delete_book"}

\* the calls get_session made on a session, after the code it yielded to
\* returned or raised
RECURSIVE AfterYield(_)
AfterYield(log) ==
    IF log = <<>> \/ Head(log) \in {"returned", "raised"} THEN log
    ELSE AfterYield(Tail(log))

C28_SignupThenLogin ==
    (resp.op = "login" /\ Registered) =>
        IF PasswordMatches
        THEN /\ resp.status = 200
             /\ resp.body # None
             /\ {"access_token", "refresh_token"} \subseteq DOMAIN resp.body
        ELSE /\ resp.status = 403
             /\ resp.detail = "Invalid email or password"

====
